---- MODULE Spec2Model ----
(***************************************************************************)
(* Model of the ensure_simd crate (src/src/lib.rs).                        *)
(*                                                                         *)
(* The crate has two parts:                                                *)
(*   - a compile-time gate: a compile_error! item under                    *)
(*     #[cfg(not(any(doc, debug_assertions, target_feature = "avx2",       *)
(*     target_feature = "neon", feature = "scalar")))]   (lines 20-34);    *)
(*   - the function ensure_simd() (lines 41-55), whose body is a block     *)
(*     under #[cfg(target_feature = "avx2")] that tests                    *)
(*     !is_x86_feature_detected!("avx2"), prints to stderr and calls       *)
(*     std::process::exit(1).                                              *)
(*                                                                         *)
(* One behaviour of the model is one build of an embedding program         *)
(* followed by (at most) one execution of the produced binary on one CPU.  *)
(* The build flags and the CPU are fixed by Init; the embedding program    *)
(* is an arbitrary interleaving of its own steps and calls of              *)
(* ensure_simd().                                                          *)
(***************************************************************************)
EXTENDS Integers, Sequences, FiniteSets

\* Most calls of ensure_simd() one execution makes.
MaxCalls == 2
\* Most steps of its own the embedding program makes in one execution.
MaxSteps == 2

VARIABLES
    doc,                  \* cfg(doc): the crate is being documented
    debug_assertions,     \* cfg(debug_assertions): a debug build
    target_feature_avx2,  \* cfg(target_feature = "avx2")
    target_feature_neon,  \* cfg(target_feature = "neon")
    feature_scalar,       \* cfg(feature = "scalar"): the opt-out
    cpu_avx2,             \* what CPUID of the executing CPU reports for AVX2
    build,                \* "unbuilt", "error" (no artifact) or "artifact"
    rustc_err,            \* the compiler's error output: a sequence of lines
    proc,                 \* "none", "running", "exited" or "killed"
    exit_code,            \* exit status of the process: <<>> while there is none, else <<status>>
    stderr,               \* the process's standard error: a sequence of messages
    log                   \* what the process did, in order

vars == <<doc, debug_assertions, target_feature_avx2, target_feature_neon,
          feature_scalar, cpu_avx2, build, rustc_err, proc, exit_code,
          stderr, log>>

flags == <<doc, debug_assertions, target_feature_avx2, target_feature_neon,
           feature_scalar>>

(***************************************************************************)
(* The two fixed texts.  A text is a sequence of lines and a line is the   *)
(* set of the remedies and references it names (TLA+ strings are atomic,   *)
(* so a line is modelled by what it mentions).                             *)
(***************************************************************************)

\* The same text with the line about the `scalar` feature left out.
compile_error_msg_no_optout ==
    << {},
       {"AVX2", "NEON"},
       {"AVX2", "not-default"},
       {},
       {"RUSTFLAGS", "target-cpu=native"},
       {"readme"} >>

\* lib.rs 27-34: the argument of compile_error!
compile_error_msg ==
    << {},
       {"AVX2", "NEON"},
       {"AVX2", "not-default"},
       {},
       {"RUSTFLAGS", "target-cpu=native"},
       {"scalar-feature"},
       {"readme"} >>

\* lib.rs 45-51: the argument of eprintln!
eprintln_msg ==
    << {},
       {"AVX2", "cpu-unsupported"},
       {"run-on-avx2-cpu", "scalar-feature"},
       {"readme"},
       {} >>

Mentions(text, what) == \E i \in 1..Len(text) : what \in text[i]

(***************************************************************************)
(* The compile-time gate.                                                  *)
(***************************************************************************)

\* The predicate with `feature = "scalar"` forgotten in the any(...).
GateFails_no_scalar ==
    ~(doc \/ debug_assertions \/ target_feature_avx2 \/ target_feature_neon)

\* lib.rs 20-26: the cfg predicate under which compile_error! is compiled
GateFails ==
    ~(doc \/ debug_assertions \/ target_feature_avx2 \/ target_feature_neon
        \/ feature_scalar)

(***************************************************************************)
(* The run-time probe.                                                     *)
(***************************************************************************)

\* std's is_x86_feature_detected!(f) expands to
\*     cfg!(target_feature = f) || <run-time detection of f>
\* ("does not resolve at compile time unless the specified feature is
\* already enabled for the entire crate").  The || short-circuits: the
\* CPU is queried only when the feature is not enabled at compile time.
\* value: what the macro evaluates to; queried: whether the CPU was asked.
is_x86_feature_detected(enabled, cpu) ==
    [value |-> enabled \/ cpu, queried |-> ~enabled]

\* The block with its test written without the `!`.
Probe_no_negation ==
    IF target_feature_avx2
    THEN LET d == is_x86_feature_detected(target_feature_avx2, cpu_avx2)
         IN  [queried |-> d.queried, fails |-> d.value]
    ELSE [queried |-> FALSE, fails |-> FALSE]

\* The block without its #[cfg(target_feature = "avx2")] attribute.
Probe_no_cfg ==
    LET d == is_x86_feature_detected(target_feature_avx2, cpu_avx2)
    IN  [queried |-> d.queried, fails |-> ~d.value]

\* A once-guard gone wrong: a repeated call is taken for a failure.
Probe_once ==
    [queried |-> FALSE,
     fails   |-> \E i \in 1..Len(log) : log[i].op = "ensure_simd"]

\* lib.rs 42-44: the cfg'd block of ensure_simd and its test.
\* queried: the CPU was asked; fails: the error branch (45-52) is taken.
Probe ==
    IF target_feature_avx2
    THEN LET d == is_x86_feature_detected(target_feature_avx2, cpu_avx2)
         IN  [queried |-> d.queried, fails |-> ~d.value]
    ELSE [queried |-> FALSE, fails |-> FALSE]

\* What one call of ensure_simd() does, in order.
Effects(p) ==
    (IF p.queried THEN <<"cpuid">> ELSE <<>>)
        \o (IF p.fails THEN <<"eprintln", "exit">> ELSE <<"return">>)

CallIdx == {i \in 1..Len(log) : log[i].op = "ensure_simd"}
StepIdx == {i \in 1..Len(log) : log[i].op = "step"}
Has(eff, e) == \E k \in 1..Len(eff) : eff[k] = e
Returned(i) == Has(log[i].effects, "return")

(***************************************************************************)
(* Initial states and actions.                                             *)
(***************************************************************************)

\* The cfg predicate is evaluated over the five flags whatever the target,
\* so every assignment of them is a build configuration.
Init ==
    /\ doc \in BOOLEAN
    /\ debug_assertions \in BOOLEAN
    /\ target_feature_avx2 \in BOOLEAN
    /\ target_feature_neon \in BOOLEAN
    /\ feature_scalar \in BOOLEAN
    /\ cpu_avx2 \in BOOLEAN
    /\ build = "unbuilt"
    /\ rustc_err = <<>>
    /\ proc = "none"
    /\ exit_code = <<>>
    /\ stderr = <<>>
    /\ log = <<>>

\* lib.rs 20-34: the crate is compiled; compile_error! aborts the build.
Compile ==
    /\ build = "unbuilt"
    /\ IF GateFails
       THEN build' = "error" /\ rustc_err' = compile_error_msg
       ELSE build' = "artifact" /\ rustc_err' = <<>>
    /\ UNCHANGED <<flags, cpu_avx2, proc, exit_code, stderr, log>>

\* The produced binary is started (a documentation build links no binary).
Run ==
    /\ build = "artifact"
    /\ ~doc
    /\ proc = "none"
    /\ proc' = "running"
    /\ UNCHANGED <<flags, cpu_avx2, build, rustc_err, exit_code, stderr, log>>

\* lib.rs 41-55: one call of ensure_simd() by the embedding program.
ensure_simd ==
    /\ proc = "running"
    /\ Cardinality(CallIdx) < MaxCalls
    /\ LET p == Probe IN
        /\ log' = Append(log, [op |-> "ensure_simd", effects |-> Effects(p)])
        /\ IF p.fails
           THEN /\ stderr' = Append(stderr, eprintln_msg)
                /\ proc' = "exited"
                /\ exit_code' = <<1>>
           ELSE UNCHANGED <<stderr, proc, exit_code>>
    /\ UNCHANGED <<flags, cpu_avx2, build, rustc_err>>

\* lib.rs 13-15, 38: a step of the embedding program's own code.
MainStep ==
    /\ proc = "running"
    /\ Cardinality(StepIdx) < MaxSteps
    /\ log' = Append(log, [op |-> "step", effects |-> <<>>])
    /\ UNCHANGED <<flags, cpu_avx2, build, rustc_err, proc, exit_code, stderr>>

\* lib.rs 38: code compiled with AVX2 runs into an illegal instruction on
\* a CPU without AVX2; whether a given step does is not determined.
IllegalInstruction ==
    /\ proc = "running"
    /\ target_feature_avx2 /\ ~cpu_avx2
    /\ proc' = "killed"
    /\ log' = Append(log, [op |-> "SIGILL", effects |-> <<>>])
    /\ UNCHANGED <<flags, cpu_avx2, build, rustc_err, exit_code, stderr>>

\* The embedding program's main returns.
MainReturn ==
    /\ proc = "running"
    /\ proc' = "exited"
    /\ exit_code' = <<0>>
    /\ UNCHANGED <<flags, cpu_avx2, build, rustc_err, stderr, log>>

Next ==
    \/ Compile
    \/ Run
    \/ ensure_simd
    \/ MainStep
    \/ IllegalInstruction
    \/ MainReturn

Spec == Init /\ [][Next]_vars

(***************************************************************************)
(* Properties.                                                             *)
(***************************************************************************)

AnyFlag ==
    doc \/ debug_assertions \/ target_feature_avx2 \/ target_feature_neon
        \/ feature_scalar

Called == CallIdx # {}
NoOutput == stderr = <<>>
\* No call of ensure_simd() ended the process.
NotTerminatedByProbe ==
    /\ \A i \in CallIdx : Returned(i) /\ ~Has(log[i].effects, "exit")
    /\ exit_code # <<1>>

\* C1: whenever at least one of the five build flags (doc, debug, AVX2,
\* NEON, scalar opt-out) is true, the compiled crate is in no error state:
\* the build produced its artifact and the compiler emitted no message.
C1_GatePasses ==
    (build # "unbuilt" /\ AnyFlag) => (build = "artifact" /\ rustc_err = <<>>)

\* C1 case: a release build whose only true flag is the scalar opt-out
\* has been compiled.
C1_Witness ==
    /\ build = "artifact"
    /\ feature_scalar
    /\ ~(doc \/ debug_assertions \/ target_feature_avx2 \/ target_feature_neon)

\* C2: when all five build flags are false the build ends in the error
\* state, never produces an artifact (so nothing ever runs), and the
\* message names both the native-codegen remedy and the opt-out remedy.
C2_GateFails ==
    (build # "unbuilt" /\ ~AnyFlag) =>
        /\ build = "error"
        /\ proc = "none"
        /\ Mentions(rustc_err, "target-cpu=native")
        /\ Mentions(rustc_err, "scalar-feature")

\* C2 case: the all-false configuration has been compiled.
C2_Witness == build # "unbuilt" /\ ~AnyFlag

\* C3 (as claimed): in an AVX2 build on a CPU without AVX2, once
\* ensure_simd has been called the diagnostic is on stderr, it was written
\* before the exit, and the process has exited with status exactly 1.
C3_Claimed ==
    (target_feature_avx2 /\ ~cpu_avx2 /\ Called) =>
        /\ stderr = <<eprintln_msg>>
        /\ proc = "exited"
        /\ exit_code = <<1>>
        /\ \A i \in CallIdx :
             \E k \in 1..Len(log[i].effects) - 1 :
                 /\ log[i].effects[k] = "eprintln"
                 /\ log[i].effects[k + 1] = "exit"

\* C4: in an AVX2 build on a CPU with AVX2, every call of ensure_simd
\* returns: nothing is on stderr and no call ended the process.
C4_ReturnsNormally ==
    (target_feature_avx2 /\ cpu_avx2 /\ Called) =>
        (NoOutput /\ NotTerminatedByProbe)

\* C4 case: ensure_simd has been called in an AVX2 build on an AVX2 CPU.
C4_Witness == target_feature_avx2 /\ cpu_avx2 /\ Called

\* C5: in a build without AVX2, whatever the CPU, every call of
\* ensure_simd returns at once: it asks the CPU nothing, nothing is on
\* stderr and no call ended the process.
C5_NoProbeWithoutAvx2 ==
    (~target_feature_avx2 /\ Called) =>
        /\ \A i \in CallIdx : log[i].effects = <<"return">>
        /\ NoOutput
        /\ NotTerminatedByProbe

\* C5 case: ensure_simd has been called in a NEON build (no AVX2) on a CPU
\* that reports no AVX2.
C5_Witness ==
    ~target_feature_avx2 /\ target_feature_neon /\ ~cpu_avx2 /\ Called

\* C6 (as claimed): in an AVX2 build on a CPU without AVX2 nothing of the
\* embedding program follows the first call of ensure_simd: no step of its
\* own, no further call, no return from main.
C6_Claimed ==
    (target_feature_avx2 /\ ~cpu_avx2) =>
        /\ \A i \in CallIdx : \A j \in (i + 1)..Len(log) :
               log[j].op \notin {"step", "ensure_simd"}
        /\ (Called => exit_code # <<0>>)
        /\ \A i \in CallIdx : ~Returned(i)

\* C7: ensure_simd is idempotent: all calls of one execution have the same
\* outcome, and a call that returned wrote nothing.
C7_Idempotent ==
    /\ \A i, j \in CallIdx : log[i].effects = log[j].effects
    /\ \A i \in CallIdx : Returned(i) => NoOutput

\* C7 case: two consecutive calls of ensure_simd have been made.
C7_Witness ==
    \E i \in CallIdx : (i + 1) \in CallIdx

\* C8 (as claimed): in a release, non-documentation build without the
\* opt-out, an execution that has returned from ensure_simd runs with
\* AVX2 compiled in and supported by the CPU, or with NEON compiled in.
C8_Claimed ==
    ( /\ ~debug_assertions /\ ~doc /\ ~feature_scalar
      /\ build = "artifact"
      /\ \E i \in CallIdx : Returned(i) )
    => \/ (target_feature_avx2 /\ cpu_avx2)
       \/ target_feature_neon

\* C9 (as claimed): in an AVX2 build every call of ensure_simd asks the
\* CPU for its features before it returns or terminates.
C9_Claimed ==
    target_feature_avx2 =>
        \A i \in CallIdx : log[i].effects[1] = "cpuid"

\* How a call of ensure_simd ended, and how the claims say it ends given
\* only the AVX2 flag and the CPU's report.
Outcome(i) == IF Returned(i) THEN "return" ELSE "exit"
ClaimedOutcome(avx2, cpu) == IF avx2 /\ ~cpu THEN "exit" ELSE "return"

\* C10 (as claimed): how ensure_simd ends is a function of the AVX2 flag
\* and the CPU's report alone, whatever the other four flags are, and an
\* AVX2 build with the opt-out set exits with status 1 on a CPU without
\* AVX2.
C10_Claimed ==
    /\ \A i \in CallIdx :
         Outcome(i) = ClaimedOutcome(target_feature_avx2, cpu_avx2)
    /\ (target_feature_avx2 /\ feature_scalar /\ ~cpu_avx2 /\ Called)
         => (proc = "exited" /\ exit_code = <<1>>)

====
